---- MODULE Spec2Model ----
(***************************************************************************)
(* Barrett reduction library (libbr): BarrettRed32, BarrettRed64,          *)
(* BarrettRed128 and the wide-arithmetic helpers of libbr/util.hpp.        *)
(*                                                                         *)
(* Machine words are scaled: uint64_t is Bits64 = 2*half bits wide,        *)
(* unsigned __int128 is Bits128 = 2*Bits64 bits wide and the 32-bit halves *)
(* used inside the portable mulhi64 are half wide.  half is fixed by the   *)
(* initial state: HalfBits, or ScenHalfBits where the operands of the test *)
(* program (123 and 4567) must fit the word.  The uint32_t of              *)
(* BarrettRed32, which shares no code with the other classes, is Bits32    *)
(* bits wide and its uint64_t intermediates 2*Bits32.  Every C++ unsigned  *)
(* operation is followed by the reduction modulo its type's width.         *)
(* unsigned long is taken to be the 64-bit word (LP64), as the code's      *)
(* 1UL << 63U requires.                                                    *)
(***************************************************************************)
EXTENDS Integers, Sequences, FiniteSets, TLC

\* Scaled width of one half of the 64-bit word.
HalfBits == 3
\* Scaled width of BarrettRed32's uint32_t.
Bits32 == 6
\* Largest modulus / divisor the model enumerates.
MaxModulus == 63
\* Largest dividend the model enumerates.
MaxDividend == 4095

\* half is the width of one half of the 64-bit word the build is scaled to
\* (fixed by the initial state), native the build (TRUE when __SIZEOF_INT128__
\* is defined), ctx the members of the live reducer, last the outcome of the
\* last constructor or calc call, ucall the outcome of the last helper call,
\* thr the calc calls in progress on concurrent threads.
VARIABLES half, native, ctx, last, ucall, thr

vars == <<half, native, ctx, last, ucall, thr>>

Bits64 == 2 * half
Bits128 == 2 * Bits64

Pow2(k) == 2 ^ k

UINT32_MAX == Pow2(Bits32) - 1
UINT64_MAX == Pow2(Bits64) - 1
UINT128_MAX == Pow2(Bits128) - 1

\* Conversions to the unsigned types (wraparound of unsigned arithmetic).
U32(v) == v % Pow2(Bits32)
U32x2(v) == v % Pow2(2 * Bits32)
UHalf(v) == v % Pow2(half)
U64(v) == v % Pow2(Bits64)
U128(v) == v % Pow2(Bits128)

Min(a, b) == IF a < b THEN a ELSE b

RECURSIVE BitAnd(_, _)
\* a & b on non-negative integers.
BitAnd(a, b) ==
    IF a = 0 \/ b = 0 THEN 0
    ELSE (a % 2) * (b % 2) + 2 * BitAnd(a \div 2, b \div 2)

\* Bit i of v, as ((v & (1UL << i)) != 0).
BitAt(v, i) == (v \div Pow2(i)) % 2

\* v | (1UL << i)
SetBit(v, i) == IF BitAt(v, i) = 1 THEN v ELSE v + Pow2(i)

(***************************************************************************)
(* libbr/util.hpp                                                          *)
(***************************************************************************)

\* mulhi64 of the __SIZEOF_INT128__ build: the 128-bit product shifted right.
mulhi64_native(a, b) ==
    LET prod == U128(a * b)
    IN  U64(prod \div Pow2(Bits64))

\* Portable mulhi64 with the carry of the low partial sums dropped.
mulhi64_parts_nocarry(a, b) ==
    LET a_lo == UHalf(a)
        a_hi == a \div Pow2(half)
        b_lo == UHalf(b)
        b_hi == b \div Pow2(half)
        p0 == U64(a_lo * b_lo)
        p1 == U64(a_lo * b_hi)
        p2 == U64(a_hi * b_lo)
        p3 == U64(a_hi * b_hi)
        cysum == (p0 \div Pow2(half)) + UHalf(p1) + UHalf(p2)
        hisum == p3 + (p1 \div Pow2(half)) + (p2 \div Pow2(half))
    IN  [cysum |-> cysum, cy |-> 0, hisum |-> hisum, out |-> U64(hisum)]

\* Portable mulhi64: the 32-bit halves, the partial products p0..p3, the
\* carry cy and the returned sum.  cysum and hisum are the two sums before
\* their reduction to 64 bits; out is the returned value.
mulhi64_parts(a, b) ==
    LET a_lo == UHalf(a)
        a_hi == a \div Pow2(half)
        b_lo == UHalf(b)
        b_hi == b \div Pow2(half)
        p0 == U64(a_lo * b_lo)
        p1 == U64(a_lo * b_hi)
        p2 == U64(a_hi * b_lo)
        p3 == U64(a_hi * b_hi)
        cysum == (p0 \div Pow2(half)) + UHalf(p1) + UHalf(p2)
        cy == UHalf(U64(cysum) \div Pow2(half))
        hisum == p3 + (p1 \div Pow2(half)) + (p2 \div Pow2(half)) + cy
    IN  [cysum |-> cysum, cy |-> cy, hisum |-> hisum, out |-> U64(hisum)]

mulhi64_portable(a, b) == mulhi64_parts(a, b).out

\* util::mulhi64 as the build selects it.
mulhi64(nat, a, b) == IF nat THEN mulhi64_native(a, b) ELSE mulhi64_portable(a, b)

\* Loop body of longdiv64 that subtracts only when r > d.
longdiv64_body_gt(st, n, d) ==
    LET r1 == U64(st.r * 2)
        lost == st.lost \/ st.r * 2 > UINT64_MAX
        n_i == BitAt(n, st.i)
        r2 == (r1 - (r1 % 2)) + n_i
    IN  IF r2 > d
        THEN [i |-> st.i - 1, q |-> SetBit(st.q, st.i), r |-> U64(r2 - d), lost |-> lost]
        ELSE [i |-> st.i - 1, q |-> st.q, r |-> r2, lost |-> lost]

\* One iteration of longdiv64's loop with its --i: st.i is the bit index.
\* lost records that some r <<= 1 shifted a set bit out of the 64-bit
\* remainder.
longdiv64_body(st, n, d) ==
    LET r1 == U64(st.r * 2)
        lost == st.lost \/ st.r * 2 > UINT64_MAX
        n_i == BitAt(n, st.i)
        r2 == (r1 - (r1 % 2)) + n_i
    IN  IF r2 >= d
        THEN [i |-> st.i - 1, q |-> SetBit(st.q, st.i), r |-> U64(r2 - d), lost |-> lost]
        ELSE [i |-> st.i - 1, q |-> st.q, r |-> r2, lost |-> lost]

RECURSIVE longdiv64_loop(_, _, _)
\* for (i = 63; i >= 0; --i)
longdiv64_loop(st, n, d) ==
    IF st.i < 0 THEN st
    ELSE longdiv64_loop(longdiv64_body(st, n, d), n, d)

\* The state longdiv64 ends in; q is the value it returns.
longdiv64_run(n, d) ==
    longdiv64_loop([i |-> Bits64 - 1, q |-> 0, r |-> 0, lost |-> FALSE], n, d)

longdiv64(n, d) == longdiv64_run(n, d).q

\* Loop body of longdiv128 that looks at the low remainder word only.
longdiv128_body_nohi(st, n_hi, n_lo, d) ==
    LET r_hi1 == U64(st.r_hi * 2) + (st.r_lo \div Pow2(Bits64 - 1))
        r_lo1 == U64(st.r_lo * 2)
        n_i == IF st.i >= Bits64 THEN BitAt(n_hi, st.i - Bits64) ELSE BitAt(n_lo, st.i)
        r_lo2 == (r_lo1 - (r_lo1 % 2)) + n_i
    IN  IF r_lo2 >= d
        THEN LET borrow == IF d > r_lo2 THEN 1 ELSE 0
             IN  [i |-> st.i - 1,
                  q |-> IF st.i < Bits64 THEN SetBit(st.q, st.i) ELSE st.q,
                  r_hi |-> U64(r_hi1 - borrow),
                  r_lo |-> U64(r_lo2 - d)]
        ELSE [i |-> st.i - 1, q |-> st.q, r_hi |-> r_hi1, r_lo |-> r_lo2]

\* Loop body of longdiv128 that leaves the loop at once on a zero divisor.
longdiv128_body_break0(st, n_hi, n_lo, d) ==
    LET r_hi1 == U64(st.r_hi * 2) + (st.r_lo \div Pow2(Bits64 - 1))
        r_lo1 == U64(st.r_lo * 2)
        n_i == IF st.i >= Bits64 THEN BitAt(n_hi, st.i - Bits64) ELSE BitAt(n_lo, st.i)
        r_lo2 == (r_lo1 - (r_lo1 % 2)) + n_i
    IN  IF d = 0
        THEN [i |-> -1, q |-> st.q, r_hi |-> st.r_hi, r_lo |-> st.r_lo]
        ELSE IF r_hi1 # 0 \/ r_lo2 >= d
        THEN LET borrow == IF d > r_lo2 THEN 1 ELSE 0
             IN  [i |-> st.i - 1,
                  q |-> IF st.i < Bits64 THEN SetBit(st.q, st.i) ELSE st.q,
                  r_hi |-> U64(r_hi1 - borrow),
                  r_lo |-> U64(r_lo2 - d)]
        ELSE [i |-> st.i - 1, q |-> st.q, r_hi |-> r_hi1, r_lo |-> r_lo2]

\* One iteration of longdiv128's loop with its --i: st.i is the bit index.
longdiv128_body(st, n_hi, n_lo, d) ==
    LET r_hi1 == U64(st.r_hi * 2) + (st.r_lo \div Pow2(Bits64 - 1))
        r_lo1 == U64(st.r_lo * 2)
        n_i == IF st.i >= Bits64 THEN BitAt(n_hi, st.i - Bits64) ELSE BitAt(n_lo, st.i)
        r_lo2 == (r_lo1 - (r_lo1 % 2)) + n_i
    IN  IF r_hi1 # 0 \/ r_lo2 >= d
        THEN LET borrow == IF d > r_lo2 THEN 1 ELSE 0
             IN  [i |-> st.i - 1,
                  q |-> IF st.i < Bits64 THEN SetBit(st.q, st.i) ELSE st.q,
                  r_hi |-> U64(r_hi1 - borrow),
                  r_lo |-> U64(r_lo2 - d)]
        ELSE [i |-> st.i - 1, q |-> st.q, r_hi |-> r_hi1, r_lo |-> r_lo2]

RECURSIVE longdiv128_loop(_, _, _, _)
\* for (i = 127; i >= 0; --i)
longdiv128_loop(st, n_hi, n_lo, d) ==
    IF st.i < 0 THEN st
    ELSE longdiv128_loop(longdiv128_body(st, n_hi, n_lo, d), n_hi, n_lo, d)

longdiv128(n_hi, n_lo, d) ==
    longdiv128_loop([i |-> Bits128 - 1, q |-> 0, r_hi |-> 0, r_lo |-> 0], n_hi, n_lo, d).q

\* Loop body of longdiv128_1s without r_lo |= 1UL.
longdiv128_1s_body_noinject(st, d) ==
    LET r_hi1 == U64(st.r_hi * 2) + (st.r_lo \div Pow2(Bits64 - 1))
        r_lo1 == U64(st.r_lo * 2)
        r_lo2 == r_lo1
    IN  IF r_hi1 # 0 \/ r_lo2 >= d
        THEN LET borrow == IF d > r_lo2 THEN 1 ELSE 0
             IN  [i |-> st.i - 1,
                  q |-> IF st.i < Bits64 THEN SetBit(st.q, st.i) ELSE st.q,
                  r_hi |-> U64(r_hi1 - borrow),
                  r_lo |-> U64(r_lo2 - d)]
        ELSE [i |-> st.i - 1, q |-> st.q, r_hi |-> r_hi1, r_lo |-> r_lo2]

\* One iteration of longdiv128_1s's loop with its --i: every dividend bit
\* is 1.
longdiv128_1s_body(st, d) ==
    LET r_hi1 == U64(st.r_hi * 2) + (st.r_lo \div Pow2(Bits64 - 1))
        r_lo1 == U64(st.r_lo * 2)
        r_lo2 == IF r_lo1 % 2 = 1 THEN r_lo1 ELSE r_lo1 + 1
    IN  IF r_hi1 # 0 \/ r_lo2 >= d
        THEN LET borrow == IF d > r_lo2 THEN 1 ELSE 0
             IN  [i |-> st.i - 1,
                  q |-> IF st.i < Bits64 THEN SetBit(st.q, st.i) ELSE st.q,
                  r_hi |-> U64(r_hi1 - borrow),
                  r_lo |-> U64(r_lo2 - d)]
        ELSE [i |-> st.i - 1, q |-> st.q, r_hi |-> r_hi1, r_lo |-> r_lo2]

RECURSIVE longdiv128_1s_loop(_, _)
\* for (i = 127; i >= 0; --i)
longdiv128_1s_loop(st, d) ==
    IF st.i < 0 THEN st
    ELSE longdiv128_1s_loop(longdiv128_1s_body(st, d), d)

longdiv128_1s(d) ==
    longdiv128_1s_loop([i |-> Bits128 - 1, q |-> 0, r_hi |-> 0, r_lo |-> 0], d).q

(***************************************************************************)
(* libbr/br.hpp                                                            *)
(***************************************************************************)
ErrSmall == "Modulus must be >= 3."
ErrPow2 == "Modulus must not be a power of 2."
ErrInput == "Input must be less than modulus^2."
ErrModBig == "Modulus must be < 2^63."

\* 1UL << 63U
TopBit64 == Pow2(Bits64 - 1)

\* The two checks at the head of BarrettRed32's constructor: the message of
\* the exception thrown, or "" when none is.
BarrettRed32_validate(n) ==
    IF n < 3 THEN ErrSmall
    ELSE IF BitAnd(n, U32(n - 1)) = 0 THEN ErrPow2
    ELSE ""

\* Validation without the power-of-two check.
BarrettRed64_validate_nopow2(n) ==
    IF n < 3 THEN ErrSmall
    ELSE ""

BarrettRed64_validate(n) ==
    IF n < 3 THEN ErrSmall
    ELSE IF BitAnd(n, U64(n - 1)) = 0 THEN ErrPow2
    ELSE ""

BarrettRed128_validate(n) ==
    IF n < 3 THEN ErrSmall
    ELSE IF BitAnd(n, U64(n - 1)) = 0 THEN ErrPow2
    ELSE ""

\* The members a BarrettRed32 constructor leaves behind.
BarrettRed32_new(n) ==
    [cls |-> "BarrettRed32", n |-> n, r |-> UINT32_MAX \div n]

\* Constructor that divides 2^64, which wraps to 0 in 64 bits, by n.
BarrettRed64_new_wrap(nat, n) ==
    [cls |-> "BarrettRed64", n |-> n,
     r |-> U64(UINT64_MAX + 1) \div n,
     n2_lo |-> U64(n * n),
     n2_hi |-> mulhi64(nat, n, n)]

\* Constructor that keeps only the low word of n^2.
BarrettRed64_new_lo(nat, n) ==
    [cls |-> "BarrettRed64", n |-> n,
     r |-> UINT64_MAX \div n,
     n2_lo |-> U64(n * n),
     n2_hi |-> 0]

BarrettRed64_new(nat, n) ==
    [cls |-> "BarrettRed64", n |-> n,
     r |-> UINT64_MAX \div n,
     n2_lo |-> U64(n * n),
     n2_hi |-> mulhi64(nat, n, n)]

\* s taken from the 64-bit quotient instead of the 128-bit one.
BarrettRed128_s_num64(nat, n) == U64(UINT64_MAX \div n)

\* s clamped to UINT64_MAX when the 128-bit quotient exceeds 64 bits.
BarrettRed128_s_saturate(nat, n) == Min(UINT128_MAX \div n, UINT64_MAX)

\* s: the 128-bit quotient converted to uint64_t, or longdiv128_1s(n).
BarrettRed128_s(nat, n) ==
    IF nat THEN U64(UINT128_MAX \div n) ELSE longdiv128_1s(n)

\* t without the final + 1.
BarrettRed128_t_noinc(n) ==
    LET r == UINT64_MAX \div n
    IN  U64(UINT64_MAX - U64(r * n))

\* t = (UINT64_MAX - r * n) + 1 in 64-bit arithmetic.
BarrettRed128_t(n) ==
    LET r == UINT64_MAX \div n
    IN  U64(U64(UINT64_MAX - U64(r * n)) + 1)

\* With a native 128-bit type s and n2 come from 128-bit arithmetic;
\* without it s comes from longdiv128_1s and n^2 is kept as two words.
BarrettRed128_new(nat, n) ==
    LET r == UINT64_MAX \div n
        t == BarrettRed128_t(n)
    IN  IF nat
        THEN [cls |-> "BarrettRed128", n |-> n, r |-> r,
              s |-> BarrettRed128_s(nat, n), t |-> t,
              n2 |-> U128(n * n)]
        ELSE [cls |-> "BarrettRed128", n |-> n, r |-> r,
              s |-> BarrettRed128_s(nat, n), t |-> t,
              n2_lo |-> U64(n * n),
              n2_hi |-> mulhi64(nat, n, n)]

\* Older revision of the constructor: s as the 128-bit quotient minus r << 64.
BarrettRed128_s_rev(n) ==
    LET r == UINT64_MAX \div n
        two_pow_128_div_n == UINT128_MAX \div n
        two_pow_64_times_r == U128(r * Pow2(Bits64))
    IN  U64(U128(two_pow_128_div_n - two_pow_64_times_r))

\* Older revision of the constructor: t in 128-bit arithmetic.
BarrettRed128_t_rev(n) ==
    LET r == UINT64_MAX \div n
        r_times_n == U128(r * n)
    IN  U64(U128(Pow2(Bits64) - r_times_n))

\* BarrettRed32::calc: the dividend is compared with n*n in 64 bits.
BarrettRed32_rejects(c, x) == U32x2(x) >= U32x2(U32x2(c.n) * U32x2(c.n))

\* Reduction without the conditional subtraction.
BarrettRed32_reduce_nosub(c, x) ==
    LET xr == U32x2(U32x2(x) * U32x2(c.r))
        q0 == U32(xr \div Pow2(Bits32))
        q1 == U32(x - U32(q0 * c.n))
    IN  [q_rem |-> q1, val |-> q1]

\* BarrettRed32::calc after the range check.
BarrettRed32_reduce(c, x) ==
    LET xr == U32x2(U32x2(x) * U32x2(c.r))
        q0 == U32(xr \div Pow2(Bits32))
        q1 == U32(x - U32(q0 * c.n))
    IN  [q_rem |-> q1, val |-> IF q1 >= c.n THEN U32(q1 - c.n) ELSE q1]

\* Range check that ignores the high word of n^2.
BarrettRed64_rejects_lo(c, x) == x >= c.n2_lo

\* BarrettRed64::calc: n2_hi == 0 && x >= n2_lo
BarrettRed64_rejects(c, x) == c.n2_hi = 0 /\ x >= c.n2_lo

\* Reduction whose quotient estimate is one too small.
BarrettRed64_reduce_lowq(nat, c, x) ==
    LET xr_hi == mulhi64(nat, x, c.r)
        q0 == IF xr_hi > 0 THEN xr_hi - 1 ELSE 0
        q1 == U64(x - U64(q0 * c.n))
    IN  [q_rem |-> q1, val |-> IF q1 >= c.n THEN U64(q1 - c.n) ELSE q1]

\* BarrettRed64::calc after the range check.
BarrettRed64_reduce(nat, c, x) ==
    LET xr_hi == mulhi64(nat, x, c.r)
        q0 == xr_hi
        q1 == U64(x - U64(q0 * c.n))
    IN  [q_rem |-> q1, val |-> IF q1 >= c.n THEN U64(q1 - c.n) ELSE q1]

\* calc(uint128_t): x >= n2
BarrettRed128_single_rejects(c, x) == x >= c.n2

\* Single-value reduction that computes a1 in 64 bits.
BarrettRed128_single_reduce_a64(c, x) ==
    LET a == x \div Pow2(Bits64)
        b == U64(x)
        qa == U128(a * c.s) \div Pow2(Bits64)
        qb == U64(U128(b * c.r) \div Pow2(Bits64))
        a1_0 == U64(a * c.t - qa * c.n)
        a1 == IF a1_0 >= c.n THEN U64(a1_0 - c.n) ELSE a1_0
        b1_0 == U64(b - U64(qb * c.n))
        b1 == IF b1_0 >= c.n THEN U64(b1_0 - c.n) ELSE b1_0
        x1_0 == U128(a1 + b1)
        x1 == IF x1_0 >= c.n THEN U128(x1_0 - c.n) ELSE x1_0
    IN  [a1_0 |-> a1_0, a1 |-> a1, b1_0 |-> b1_0, b1 |-> b1,
         x1_0 |-> x1_0, val |-> U64(x1)]

\* calc(uint128_t) after the range check: a, qa, a1 and x1 are 128-bit,
\* b, qb and b1 are 64-bit.
BarrettRed128_single_reduce(c, x) ==
    LET a == x \div Pow2(Bits64)
        b == U64(x)
        qa == U128(a * c.s) \div Pow2(Bits64)
        qb == U64(U128(b * c.r) \div Pow2(Bits64))
        a1_0 == U128(U128(a * c.t) - U128(qa * c.n))
        a1 == IF a1_0 >= c.n THEN U128(a1_0 - c.n) ELSE a1_0
        b1_0 == U64(b - U64(qb * c.n))
        b1 == IF b1_0 >= c.n THEN U64(b1_0 - c.n) ELSE b1_0
        x1_0 == U128(a1 + b1)
        x1 == IF x1_0 >= c.n THEN U128(x1_0 - c.n) ELSE x1_0
    IN  [a1_0 |-> a1_0, a1 |-> a1, b1_0 |-> b1_0, b1 |-> b1,
         x1_0 |-> x1_0, val |-> U64(x1)]

\* Guards in which the dividend check comes before the modulus check.
BarrettRed128_split_guard_swapped(nat, c, x_hi, x_lo) ==
    IF (IF nat
        THEN x_hi * Pow2(Bits64) + x_lo >= c.n2
        ELSE x_hi > c.n2_hi \/ (x_hi = c.n2_hi /\ x_lo >= c.n2_lo))
    THEN ErrInput
    ELSE IF c.n >= TopBit64 THEN ErrModBig
    ELSE ""

\* The two guards at the head of calc(uint64_t, uint64_t): the message of
\* the exception thrown, or "" when none is.
BarrettRed128_split_guard(nat, c, x_hi, x_lo) ==
    IF c.n >= TopBit64 THEN ErrModBig
    ELSE IF (IF nat
             THEN x_hi * Pow2(Bits64) + x_lo >= c.n2
             ELSE x_hi > c.n2_hi \/ (x_hi = c.n2_hi /\ x_lo >= c.n2_lo))
    THEN ErrInput
    ELSE ""

\* Split-halves reduction without the correction of a1.
BarrettRed128_split_reduce_noa1(nat, c, x_hi, x_lo) ==
    LET a == x_hi
        b == x_lo
        qa == mulhi64(nat, a, c.s)
        qb == mulhi64(nat, b, c.r)
        at == U64(a * c.t)
        qan == U64(qa * c.n)
        a1_0 == IF at < qan
                THEN U64(U64(U64(TopBit64 - qan) + TopBit64) + at)
                ELSE U64(at - qan)
        a1 == a1_0
        b1_0 == U64(b - U64(qb * c.n))
        b1 == IF b1_0 >= c.n THEN U64(b1_0 - c.n) ELSE b1_0
        x1_0 == U64(a1 + b1)
        x1 == IF x1_0 >= c.n THEN U64(x1_0 - c.n) ELSE x1_0
    IN  [at |-> at, qan |-> qan, a1_0 |-> a1_0, a1 |-> a1,
         b1_0 |-> b1_0, b1 |-> b1, x1_0 |-> x1_0, val |-> x1]

\* Split-halves reduction without the correction of x1.
BarrettRed128_split_reduce_nox1(nat, c, x_hi, x_lo) ==
    LET a == x_hi
        b == x_lo
        qa == mulhi64(nat, a, c.s)
        qb == mulhi64(nat, b, c.r)
        at == U64(a * c.t)
        qan == U64(qa * c.n)
        a1_0 == IF at < qan
                THEN U64(U64(U64(TopBit64 - qan) + TopBit64) + at)
                ELSE U64(at - qan)
        a1 == IF a1_0 >= c.n THEN U64(a1_0 - c.n) ELSE a1_0
        b1_0 == U64(b - U64(qb * c.n))
        b1 == IF b1_0 >= c.n THEN U64(b1_0 - c.n) ELSE b1_0
        x1_0 == U64(a1 + b1)
    IN  [at |-> at, qan |-> qan, a1_0 |-> a1_0, a1 |-> a1,
         b1_0 |-> b1_0, b1 |-> b1, x1_0 |-> x1_0, val |-> x1_0]

\* Split-halves reduction that returns the quotient estimate qb of the low
\* half in place of the remainder.
BarrettRed128_split_reduce_quot(nat, c, x_hi, x_lo) ==
    LET b == x_lo
        qb == mulhi64(nat, b, c.r)
    IN  [at |-> 0, qan |-> 0, a1_0 |-> 0, a1 |-> 0,
         b1_0 |-> 0, b1 |-> 0, x1_0 |-> 0, val |-> qb]

\* Split-halves reduction whose underflow branch adds 2^63 only once.
BarrettRed128_split_reduce_once(nat, c, x_hi, x_lo) ==
    LET a == x_hi
        b == x_lo
        qa == mulhi64(nat, a, c.s)
        qb == mulhi64(nat, b, c.r)
        at == U64(a * c.t)
        qan == U64(qa * c.n)
        a1_0 == IF at < qan
                THEN U64(U64(TopBit64 - qan) + at)
                ELSE U64(at - qan)
        a1 == IF a1_0 >= c.n THEN U64(a1_0 - c.n) ELSE a1_0
        b1_0 == U64(b - U64(qb * c.n))
        b1 == IF b1_0 >= c.n THEN U64(b1_0 - c.n) ELSE b1_0
        x1_0 == U64(a1 + b1)
        x1 == IF x1_0 >= c.n THEN U64(x1_0 - c.n) ELSE x1_0
    IN  [at |-> at, qan |-> qan, a1_0 |-> a1_0, a1 |-> a1,
         b1_0 |-> b1_0, b1 |-> b1, x1_0 |-> x1_0, val |-> x1]

\* Split-halves reduction whose a1, b1 and x1 are kept in 128 bits.
BarrettRed128_split_reduce_wide(nat, c, x_hi, x_lo) ==
    LET a == x_hi
        b == x_lo
        qa == mulhi64(nat, a, c.s)
        qb == mulhi64(nat, b, c.r)
        at == U128(a * c.t)
        qan == U128(qa * c.n)
        a1_0 == U128(at - qan)
        a1 == IF a1_0 >= c.n THEN U128(a1_0 - c.n) ELSE a1_0
        b1_0 == U128(b - U128(qb * c.n))
        b1 == IF b1_0 >= c.n THEN U128(b1_0 - c.n) ELSE b1_0
        x1_0 == U128(a1 + b1)
        x1 == IF x1_0 >= c.n THEN U128(x1_0 - c.n) ELSE x1_0
    IN  [at |-> at, qan |-> qan, a1_0 |-> a1_0, a1 |-> a1,
         b1_0 |-> b1_0, b1 |-> b1, x1_0 |-> x1_0, val |-> U64(x1)]

\* calc(uint64_t, uint64_t) after its guards: 64-bit arithmetic and mulhi64.
BarrettRed128_split_reduce(nat, c, x_hi, x_lo) ==
    LET a == x_hi
        b == x_lo
        qa == mulhi64(nat, a, c.s)
        qb == mulhi64(nat, b, c.r)
        at == U64(a * c.t)
        qan == U64(qa * c.n)
        a1_0 == IF at < qan
                THEN U64(U64(U64(TopBit64 - qan) + TopBit64) + at)
                ELSE U64(at - qan)
        a1 == IF a1_0 >= c.n THEN U64(a1_0 - c.n) ELSE a1_0
        b1_0 == U64(b - U64(qb * c.n))
        b1 == IF b1_0 >= c.n THEN U64(b1_0 - c.n) ELSE b1_0
        x1_0 == U64(a1 + b1)
        x1 == IF x1_0 >= c.n THEN U64(x1_0 - c.n) ELSE x1_0
    IN  [at |-> at, qan |-> qan, a1_0 |-> a1_0, a1 |-> a1,
         b1_0 |-> b1_0, b1 |-> b1, x1_0 |-> x1_0, val |-> x1]

(***************************************************************************)
(* Inputs the model enumerates.                                            *)
(***************************************************************************)
Words64 == 0 .. UINT64_MAX
Moduli64 == 0 .. Min(MaxModulus, UINT64_MAX)
Moduli32 == 0 .. Min(MaxModulus, UINT32_MAX)
Dividends32 == 0 .. Min(MaxDividend, UINT32_MAX)
Dividends64 == 0 .. Min(MaxDividend, UINT64_MAX)
Dividends128 == 0 .. Min(MaxDividend, UINT128_MAX)

Hi64(x) == x \div Pow2(Bits64)
Lo64(x) == U64(x)

NoCtx == [cls |-> "none"]
Idle == [op |-> "idle"]

(***************************************************************************)
(* A program that constructs a reducer, calls it, and lets it go out of    *)
(* scope.  native is the build: TRUE when __SIZEOF_INT128__ is defined.    *)
(* ctx holds the members of the live object, last the outcome of the last  *)
(* constructor or calc call (err is the message of the exception thrown,   *)
(* "" when the call returned).                                             *)
(***************************************************************************)
Init ==
    /\ half = HalfBits
    /\ thr = <<>>
    /\ native \in BOOLEAN
    /\ ctx = NoCtx
    /\ last = Idle
    /\ ucall = Idle

CanConstruct == ctx.cls = "none" /\ last.op \in {"idle", "construct"}
CanCall(cls) == ctx.cls = cls /\ last.op \in {"idle", "construct"}

Construct32 ==
    /\ CanConstruct
    /\ \E n \in Moduli32 :
        LET e == BarrettRed32_validate(n)
        IN  /\ ctx' = IF e = "" THEN BarrettRed32_new(n) ELSE NoCtx
            /\ last' = [op |-> "construct", cls |-> "BarrettRed32", n |-> n, err |-> e]
    /\ UNCHANGED <<half, thr, native, ucall>>

\* BarrettRed64 br(n): the constructor throws or leaves the members set.
Construct64_of(n) ==
    LET e == BarrettRed64_validate(n)
    IN  /\ ctx' = IF e = "" THEN BarrettRed64_new(native, n) ELSE NoCtx
        /\ last' = [op |-> "construct", cls |-> "BarrettRed64", n |-> n, err |-> e]

Construct64 ==
    /\ CanConstruct
    /\ \E n \in Moduli64 : Construct64_of(n)
    /\ UNCHANGED <<half, thr, native, ucall>>

\* BarrettRed128 br(n): the constructor throws or leaves the members set.
Construct128_of(n) ==
    LET e == BarrettRed128_validate(n)
    IN  /\ ctx' = IF e = "" THEN BarrettRed128_new(native, n) ELSE NoCtx
        /\ last' = [op |-> "construct", cls |-> "BarrettRed128", n |-> n, err |-> e]

Construct128 ==
    /\ CanConstruct
    /\ \E n \in Moduli64 : Construct128_of(n)
    /\ UNCHANGED <<half, thr, native, ucall>>

\* The outcome of br.calc(x) on the live BarrettRed32.
Calc32_of(x) ==
    IF BarrettRed32_rejects(ctx, x)
    THEN [op |-> "calc32", x |-> x, err |-> ErrInput, val |-> 0, tr |-> <<>>]
    ELSE LET t == BarrettRed32_reduce(ctx, x)
         IN  [op |-> "calc32", x |-> x, err |-> "", val |-> t.val, tr |-> t]

Calc32 ==
    /\ CanCall("BarrettRed32")
    /\ \E x \in Dividends32 : last' = Calc32_of(x)
    /\ UNCHANGED <<half, thr, native, ctx, ucall>>

\* The outcome of br.calc(x) on the live BarrettRed64.
Calc64_of(x) ==
    IF BarrettRed64_rejects(ctx, x)
    THEN [op |-> "calc64", x |-> x, err |-> ErrInput, val |-> 0, tr |-> <<>>]
    ELSE LET t == BarrettRed64_reduce(native, ctx, x)
         IN  [op |-> "calc64", x |-> x, err |-> "", val |-> t.val, tr |-> t]

Calc64 ==
    /\ CanCall("BarrettRed64")
    /\ \E x \in Dividends64 : last' = Calc64_of(x)
    /\ UNCHANGED <<half, thr, native, ctx, ucall>>

\* The outcome of br.calc(x), x a uint128_t, on the live BarrettRed128.
Calc128Single_of(x) ==
    IF BarrettRed128_single_rejects(ctx, x)
    THEN [op |-> "calc128", x |-> x, err |-> ErrInput, val |-> 0, tr |-> <<>>]
    ELSE LET t == BarrettRed128_single_reduce(ctx, x)
         IN  [op |-> "calc128", x |-> x, err |-> "", val |-> t.val, tr |-> t]

\* calc(uint128_t) exists only when __SIZEOF_INT128__ is defined.
Calc128Single ==
    /\ native
    /\ CanCall("BarrettRed128")
    /\ \E x \in Dividends128 : last' = Calc128Single_of(x)
    /\ UNCHANGED <<half, thr, native, ctx, ucall>>

\* The outcome of br.calc(x_hi, x_lo) on the live BarrettRed128, for the
\* halves of x.
Calc128Split_of(x) ==
    LET x_hi == Hi64(x)
        x_lo == Lo64(x)
        e == BarrettRed128_split_guard(native, ctx, x_hi, x_lo)
    IN  IF e # ""
        THEN [op |-> "calc128_split", x |-> x, x_hi |-> x_hi, x_lo |-> x_lo,
              err |-> e, val |-> 0, tr |-> <<>>]
        ELSE LET t == BarrettRed128_split_reduce(native, ctx, x_hi, x_lo)
             IN  [op |-> "calc128_split", x |-> x, x_hi |-> x_hi, x_lo |-> x_lo,
                  err |-> "", val |-> t.val, tr |-> t]

\* Split-halves call that keeps its reduced low half b1 in the member t.
Calc128Split_memo ==
    /\ CanCall("BarrettRed128")
    /\ \E x \in Dividends128 :
        LET o == Calc128Split_of(x)
        IN  /\ last' = o
            /\ ctx' = IF o.err = "" THEN [ctx EXCEPT !.t = o.tr.b1] ELSE ctx
    /\ UNCHANGED <<half, thr, native, ucall>>

Calc128Split ==
    /\ CanCall("BarrettRed128")
    /\ \E x \in Dividends128 : last' = Calc128Split_of(x)
    /\ UNCHANGED <<half, thr, native, ctx, ucall>>

\* The caller consumes the value or catches the exception of a calc call.
Resume ==
    /\ last.op \in {"calc32", "calc64", "calc128", "calc128_split"}
    /\ last' = Idle
    /\ UNCHANGED <<half, thr, native, ctx, ucall>>

\* The reducer goes out of scope.
Destroy ==
    /\ ctx.cls # "none"
    /\ last.op \in {"idle", "construct"}
    /\ ctx' = NoCtx
    /\ last' = Idle
    /\ UNCHANGED <<half, thr, native, ucall>>

Next ==
    \/ Construct32
    \/ Construct64
    \/ Construct128
    \/ Calc32
    \/ Calc64
    \/ Calc128Single
    \/ Calc128Split
    \/ Resume
    \/ Destroy

Spec == Init /\ [][Next]_vars

\* n is a power of two, by definition rather than by the bit trick.
IsPowerOfTwo(n) == \E k \in 0 .. Bits128 : n = Pow2(k)

ValidModulus(n) == n >= 3 /\ ~IsPowerOfTwo(n)

Accepted(op) == last.op = op /\ last.err = ""

\* C1: split-halves reduction returns x mod n for every valid n < 2^63 and
\* every x = x_hi*2^64 + x_lo < n^2.
C1_SplitCorrect ==
    (last.op = "calc128_split" /\ ctx.n < TopBit64 /\ last.x < ctx.n * ctx.n) =>
        /\ last.err = ""
        /\ last.val = (last.x_hi * Pow2(Bits64) + last.x_lo) % ctx.n

\* A split-halves call that went through the underflow branch (at < qan)
\* with a non-zero high half has returned.
C1_Witness ==
    /\ Accepted("calc128_split")
    /\ last.x_hi > 0
    /\ last.tr.at < last.tr.qan
    /\ last.val = last.x % ctx.n

\* C2: single-value reduction returns x mod n for every valid 64-bit n,
\* also n >= 2^63, and every 128-bit x < n^2.
C2_SingleCorrect ==
    (last.op = "calc128" /\ last.x < ctx.n * ctx.n) =>
        /\ last.err = ""
        /\ last.val = last.x % ctx.n

\* A single-value call with n >= 2^63 and a dividend above 2^64 has returned.
C2_Witness ==
    /\ Accepted("calc128")
    /\ ctx.n >= TopBit64
    /\ last.x > UINT64_MAX
    /\ last.val = last.x % ctx.n

\* C3: BarrettRed64::calc returns x mod n for every valid 64-bit n and every
\* 64-bit x < n^2.
C3_Red64Correct ==
    (last.op = "calc64" /\ last.x < ctx.n * ctx.n) =>
        /\ last.err = ""
        /\ last.val = last.x % ctx.n

\* A BarrettRed64 call that needed the conditional subtraction has returned,
\* for a modulus whose square exceeds 64 bits.
C3_Witness ==
    /\ Accepted("calc64")
    /\ ctx.n * ctx.n > UINT64_MAX
    /\ last.tr.q_rem >= ctx.n
    /\ last.val = last.x % ctx.n

\* C4: BarrettRed32::calc returns x mod n for every valid 32-bit n and every
\* 32-bit x < n^2.
C4_Red32Correct ==
    (last.op = "calc32" /\ last.x < ctx.n * ctx.n) =>
        /\ last.err = ""
        /\ last.val = last.x % ctx.n

\* A BarrettRed32 call that needed the conditional subtraction has returned.
C4_Witness ==
    /\ Accepted("calc32")
    /\ last.tr.q_rem >= ctx.n
    /\ last.val = last.x % ctx.n

\* C5: for n < 2^63 and x < n^2 the single-value entry point returns what
\* the split-halves entry point returns for (x >> 64, x mod 2^64).
C5_EntryPointsAgree ==
    (last.op = "calc128" /\ ctx.n < TopBit64 /\ last.x < ctx.n * ctx.n) =>
        /\ last.err = ""
        /\ BarrettRed128_split_guard(native, ctx, Hi64(last.x), Lo64(last.x)) = ""
        /\ last.val = BarrettRed128_split_reduce(native, ctx, Hi64(last.x), Lo64(last.x)).val

\* A single-value call with n < 2^63 and a dividend above 2^64 has returned.
C5_Witness ==
    /\ Accepted("calc128")
    /\ ctx.n < TopBit64
    /\ last.x > UINT64_MAX

\* C6: construction fails, with an invalid-modulus message, exactly when
\* n < 3 or n is a power of two; a live context has a valid modulus.
C6_InvalidModulusIff ==
    /\ last.op = "construct" =>
        /\ (last.err # "") <=> (last.n < 3 \/ IsPowerOfTwo(last.n))
        /\ last.err \in {"", ErrSmall, ErrPow2}
        /\ (last.err = "") <=> (ctx.cls = last.cls /\ ctx.n = last.n)
    /\ ctx.cls # "none" => ValidModulus(ctx.n)

\* A power of two above 2 has been refused by a constructor.
C6_Witness ==
    /\ last.op = "construct"
    /\ last.n > 2
    /\ last.err = ErrPow2
    /\ ctx = NoCtx

\* C7: a calc call (split-halves only with n < 2^63) is refused with the
\* input-too-large message exactly when x >= n^2, the exact square.
C7_InputTooLargeIff ==
    (\/ last.op \in {"calc32", "calc64", "calc128"}
     \/ (last.op = "calc128_split" /\ ctx.n < TopBit64)) =>
        /\ (last.err = ErrInput) <=> (last.x >= ctx.n * ctx.n)
        /\ (last.err = "") <=> (last.x < ctx.n * ctx.n)

\* The dividend n^2 has been refused by BarrettRed64.
C7_Witness ==
    /\ last.op = "calc64"
    /\ last.x = ctx.n * ctx.n
    /\ last.err = ErrInput

\* C8: with n >= 2^63 the split-halves entry point fails with the
\* modulus-too-large message whatever the dividend; no constructor and no
\* other calc raises that message.
C8_ModulusTooLargeOnlySplit ==
    /\ (last.op = "calc128_split" /\ ctx.n >= TopBit64) => last.err = ErrModBig
    /\ (last.op # "idle" /\ last.err = ErrModBig) =>
        (last.op = "calc128_split" /\ ctx.n >= TopBit64)
    /\ (last.op = "construct" /\ last.cls = "BarrettRed128" /\ ValidModulus(last.n)) =>
        last.err = ""

\* A split-halves call with n >= 2^63 and a dividend >= n^2 has failed.
C8_Witness ==
    /\ last.op = "calc128_split"
    /\ ctx.n >= TopBit64
    /\ last.x >= ctx.n * ctx.n
    /\ last.err = ErrModBig

(***************************************************************************)
(* Calls of util::mulhi64 on its own, in either build.                     *)
(***************************************************************************)
MulInit ==
    /\ half = HalfBits
    /\ thr = <<>>
    /\ native \in BOOLEAN
    /\ ctx = NoCtx
    /\ last = Idle
    /\ ucall = Idle

\* Build without __SIZEOF_INT128__ (and without the MSVC intrinsics).
CallMulhi64Portable ==
    /\ ~native
    /\ ucall.op = "idle"
    /\ \E a \in Words64, b \in Words64 :
        LET m == mulhi64_parts(a, b)
        IN  ucall' = [op |-> "mulhi64_portable", a |-> a, b |-> b,
                      cysum |-> m.cysum, hisum |-> m.hisum, out |-> m.out]
    /\ UNCHANGED <<half, thr, native, ctx, last>>

\* Build with __SIZEOF_INT128__.
CallMulhi64Native ==
    /\ native
    /\ ucall.op = "idle"
    /\ \E a \in Words64, b \in Words64 :
        ucall' = [op |-> "mulhi64_native", a |-> a, b |-> b,
                  out |-> mulhi64_native(a, b)]
    /\ UNCHANGED <<half, thr, native, ctx, last>>

\* The caller consumes the returned value.
UtilReturn ==
    /\ ucall.op # "idle"
    /\ ucall' = Idle
    /\ UNCHANGED <<half, thr, native, ctx, last>>

MulNext ==
    \/ CallMulhi64Portable
    \/ CallMulhi64Native
    \/ UtilReturn

SpecMul == MulInit /\ [][MulNext]_vars

(***************************************************************************)
(* Calls of the long divisions on their own.  The build is the one without *)
(* a native 128-bit type, the only one whose constructor calls them.       *)
(***************************************************************************)
DivInit ==
    /\ half = HalfBits
    /\ thr = <<>>
    /\ native = FALSE
    /\ ctx = NoCtx
    /\ last = Idle
    /\ ucall = Idle

CallLongdiv128 ==
    /\ ucall.op = "idle"
    /\ \E x \in Dividends128, d \in Moduli64 :
        ucall' = [op |-> "longdiv128", n_hi |-> Hi64(x), n_lo |-> Lo64(x), d |-> d,
                  out |-> longdiv128(Hi64(x), Lo64(x), d)]
    /\ UNCHANGED <<half, thr, native, ctx, last>>

CallLongdiv128_1s ==
    /\ ucall.op = "idle"
    /\ \E d \in Moduli64 :
        ucall' = [op |-> "longdiv128_1s", d |-> d, out |-> longdiv128_1s(d)]
    /\ UNCHANGED <<half, thr, native, ctx, last>>

CallLongdiv64 ==
    /\ ucall.op = "idle"
    /\ \E n \in Dividends64, d \in Moduli64 :
        LET e == longdiv64_run(n, d)
        IN  ucall' = [op |-> "longdiv64", n |-> n, d |-> d, lost |-> e.lost, out |-> e.q]
    /\ UNCHANGED <<half, thr, native, ctx, last>>

DivNext ==
    \/ CallLongdiv128
    \/ CallLongdiv128_1s
    \/ UtilReturn

SpecDiv == DivInit /\ [][DivNext]_vars

\* Calls of the two divisions the constructors stand for: floor(UINT64_MAX / n)
\* and floor((2^128 - 1) / n).
ConstDivNext ==
    \/ CallLongdiv64
    \/ CallLongdiv128_1s
    \/ UtilReturn

SpecConstDiv == DivInit /\ [][ConstDivNext]_vars

\* C9: the portable mulhi64 returns floor(a*b / 2^64) for all 64-bit a and b,
\* equals the native multiply-and-shift variant, and neither the carry sum
\* nor p3 + (p1>>32) + (p2>>32) + cy exceeds 64 bits.
C9_MulhiPortableExact ==
    ucall.op = "mulhi64_portable" =>
        /\ ucall.out = (ucall.a * ucall.b) \div Pow2(Bits64)
        /\ ucall.out = mulhi64_native(ucall.a, ucall.b)
        /\ ucall.cysum <= UINT64_MAX
        /\ ucall.hisum <= UINT64_MAX

\* The all-ones operands have been multiplied by the portable mulhi64.
C9_Witness ==
    /\ ucall.op = "mulhi64_portable"
    /\ ucall.a = UINT64_MAX
    /\ ucall.b = UINT64_MAX
    /\ ucall.out = UINT64_MAX - 1

\* C10: longdiv128(n_hi, n_lo, d) is the low 64 bits of
\* floor((n_hi*2^64 + n_lo) / d) for every divisor d >= 1, also when the
\* true quotient needs more than 64 bits.
C10_Longdiv128LowBits ==
    (ucall.op = "longdiv128" /\ ucall.d >= 1) =>
        ucall.out = ((ucall.n_hi * Pow2(Bits64) + ucall.n_lo) \div ucall.d) % Pow2(Bits64)

\* A division whose true quotient does not fit in 64 bits has returned.
C10_Witness ==
    /\ ucall.op = "longdiv128"
    /\ ucall.d >= 1
    /\ (ucall.n_hi * Pow2(Bits64) + ucall.n_lo) \div ucall.d > UINT64_MAX
    /\ ucall.out # 0

\* C11: longdiv128_1s(d) is the low 64 bits of floor((2^128 - 1) / d) for
\* every d >= 1, so for a valid modulus the s of the long-division build
\* equals the s of the native 128-bit build.
C11_Longdiv1sLowBits ==
    (ucall.op = "longdiv128_1s" /\ ucall.d >= 1) =>
        /\ ucall.out = (UINT128_MAX \div ucall.d) % Pow2(Bits64)
        /\ ValidModulus(ucall.d) =>
            /\ ucall.out = BarrettRed128_s(TRUE, ucall.d)
            /\ BarrettRed128_s(FALSE, ucall.d) = BarrettRed128_s(TRUE, ucall.d)

\* longdiv128_1s has returned for a valid modulus with its top bit set.
C11_Witness ==
    /\ ucall.op = "longdiv128_1s"
    /\ ValidModulus(ucall.d)
    /\ ucall.d > TopBit64
    /\ ucall.out = U64(UINT128_MAX \div ucall.d)

\* C12: longdiv64(n, d) is floor(n / d) for every 64-bit n and every d >= 1,
\* and no r <<= 1 shifts a set bit out of the remainder, also for d > 2^63.
C12_Longdiv64Exact ==
    (ucall.op = "longdiv64" /\ ucall.d >= 1) =>
        /\ ucall.out = ucall.n \div ucall.d
        /\ ~ucall.lost

\* longdiv64 has returned a non-zero quotient for a divisor above 2^63.
C12_Witness ==
    /\ ucall.op = "longdiv64"
    /\ ucall.d > TopBit64
    /\ ucall.n >= ucall.d
    /\ ucall.out = 1

\* Width k of the constant r of a context: 32 for BarrettRed32, else 64.
WidthOf(c) == IF c.cls = "BarrettRed32" THEN Bits32 ELSE Bits64

\* C13: in every constructed context r = floor((2^k - 1) / n), k = 32 for
\* BarrettRed32 and 64 for the other two, and this is floor(2^k / n).
C13_RIsReciprocal ==
    ctx.cls # "none" =>
        /\ ctx.r = (Pow2(WidthOf(ctx)) - 1) \div ctx.n
        /\ ctx.r = Pow2(WidthOf(ctx)) \div ctx.n

\* A BarrettRed64 exists whose modulus divides 2^64 - 1 exactly.
C13_Witness ==
    /\ ctx.cls = "BarrettRed64"
    /\ UINT64_MAX % ctx.n = 0
    /\ ctx.r * ctx.n = UINT64_MAX

\* C14: in every BarrettRed128, r*n < 2^64, so t = (UINT64_MAX - r*n) + 1 is
\* 2^64 - r*n with no wraparound; 0 < t < n, t = 2^64 mod n, and t is the
\* value the older revision computed in 128-bit arithmetic.
C14_TIsRemainder ==
    ctx.cls = "BarrettRed128" =>
        /\ ctx.r * ctx.n <= UINT64_MAX
        /\ (UINT64_MAX - ctx.r * ctx.n) + 1 <= UINT64_MAX
        /\ ctx.t = Pow2(Bits64) - ctx.r * ctx.n
        /\ 0 < ctx.t /\ ctx.t < ctx.n
        /\ ctx.t = Pow2(Bits64) % ctx.n
        /\ ctx.t = BarrettRed128_t_rev(ctx.n)

\* A BarrettRed128 exists with a modulus above 2^63, where r = 1.
C14_Witness ==
    /\ ctx.cls = "BarrettRed128"
    /\ ctx.n > TopBit64
    /\ ctx.r = 1
    /\ ctx.t = Pow2(Bits64) - ctx.n

\* C15: in every BarrettRed128, floor((2^128 - 1) / n) = r*2^64 + s with
\* 0 <= s < 2^64: the truncated quotient is the quotient minus r << 64 of
\* the older revision, and the quotient's high 64 bits are r.
C15_QuotientSplits ==
    ctx.cls = "BarrettRed128" =>
        /\ UINT128_MAX \div ctx.n = ctx.r * Pow2(Bits64) + ctx.s
        /\ 0 <= ctx.s /\ ctx.s <= UINT64_MAX
        /\ ctx.s = BarrettRed128_s_rev(ctx.n)
        /\ Hi64(UINT128_MAX \div ctx.n) = ctx.r

\* A BarrettRed128 of the long-division build exists with r > 1 and s > 0.
C15_Witness ==
    /\ ctx.cls = "BarrettRed128"
    /\ ~native
    /\ ctx.r > 1
    /\ ctx.s > 0

\* C16 as stated: the quotient floor((2^128 - 1) / n) of a successful
\* BarrettRed128 construction fits in 64 bits.
C16_QuotientFits ==
    (last.op = "construct" /\ last.cls = "BarrettRed128" /\ last.err = "") =>
        UINT128_MAX \div last.n <= UINT64_MAX

\* C16 amended: the quotient floor((2^128 - 1) / n) of a successful
\* BarrettRed128 construction never fits in 64 bits (it is at least
\* 2^64 + 1), and the constructor keeps its low 64 bits as s.
C16_QuotientTruncated ==
    (last.op = "construct" /\ last.cls = "BarrettRed128" /\ last.err = "") =>
        /\ UINT128_MAX \div last.n >= Pow2(Bits64) + 1
        /\ ctx.s = (UINT128_MAX \div last.n) % Pow2(Bits64)

\* The long-division build has constructed a BarrettRed128 for the largest
\* modulus, whose quotient 2^64 + 1 is the smallest one possible.
C16_Witness ==
    /\ last.op = "construct"
    /\ last.cls = "BarrettRed128"
    /\ last.err = ""
    /\ ~native
    /\ last.n = UINT64_MAX
    /\ UINT128_MAX \div last.n = Pow2(Bits64) + 1
    /\ ctx.s = 1

(***************************************************************************)
(* The reducers on the operands of the test program: br-test.cpp's          *)
(* BarrettRed128 br(123) called with (0, 4567), and test_br64's largest     *)
(* 63-bit moduli, next to BarrettRed32 on all its operands.  The word is    *)
(* the narrowest one of an even number of bits that holds the dividends     *)
(* drawn around 4567.                                                       *)
(***************************************************************************)
ScenN == 123
ScenX == 4567
ScenSpread == 8

ScenHalfBits ==
    CHOOSE h \in 1 .. 7 :
        /\ ScenX + ScenSpread < Pow2(2 * h)
        /\ \A g \in 1 .. (h - 1) : ScenX + ScenSpread >= Pow2(2 * g)

ScenModuli == (ScenN - ScenSpread) .. (ScenN + ScenSpread)
ScenDividends == (ScenX - ScenSpread) .. (ScenX + ScenSpread)
\* test_br64, bitlen = 63: the moduli just below max_n = UINT64_MAX >> 1.
ScenModuli64 == (TopBit64 - 1 - ScenSpread) .. (TopBit64 - 1)
\* Values a caller of BarrettRed64::calc holds: just below n^2, and the
\* largest 64-bit words.
ScenWide(n) ==
    {n * n - k : k \in 0 .. ScenSpread} \cup {UINT64_MAX - k : k \in 0 .. ScenSpread}

ScenInit ==
    /\ half = ScenHalfBits
    /\ thr = <<>>
    /\ native \in BOOLEAN
    /\ ctx = NoCtx
    /\ last = Idle
    /\ ucall = Idle

ScenConstruct64 ==
    /\ CanConstruct
    /\ \E n \in ScenModuli \cup ScenModuli64 : Construct64_of(n)
    /\ UNCHANGED <<half, thr, native, ucall>>

ScenConstruct128 ==
    /\ CanConstruct
    /\ \E n \in ScenModuli : Construct128_of(n)
    /\ UNCHANGED <<half, thr, native, ucall>>

\* br.calc(v): the parameter is a uint64_t, so an argument v of a wider
\* type is converted to it, which keeps its low 64 bits.
ScenCalc64 ==
    /\ CanCall("BarrettRed64")
    /\ \E v \in ScenDividends \cup ScenWide(ctx.n) :
        last' = [arg |-> v] @@ Calc64_of(U64(v))
    /\ UNCHANGED <<half, thr, native, ctx, ucall>>

ScenCalc128Single ==
    /\ native
    /\ CanCall("BarrettRed128")
    /\ \E x \in ScenDividends \cup ScenWide(ctx.n) : last' = Calc128Single_of(x)
    /\ UNCHANGED <<half, thr, native, ctx, ucall>>

ScenCalc128Split ==
    /\ CanCall("BarrettRed128")
    /\ \E x \in ScenDividends \cup ScenWide(ctx.n) : last' = Calc128Split_of(x)
    /\ UNCHANGED <<half, thr, native, ctx, ucall>>

ScenNext ==
    \/ Construct32
    \/ Calc32
    \/ ScenConstruct64
    \/ ScenConstruct128
    \/ ScenCalc64
    \/ ScenCalc128Single
    \/ ScenCalc128Split
    \/ Resume
    \/ Destroy

SpecScen == ScenInit /\ [][ScenNext]_vars

\* A reduction of the dividend 4567 by the modulus 123 has returned or thrown.
ScenCall ==
    /\ ctx.cls \in {"BarrettRed64", "BarrettRed128"}
    /\ ctx.n = ScenN
    /\ last.op \in {"calc64", "calc128", "calc128_split"}
    /\ last.x = ScenX
    /\ last.op = "calc128_split" => (last.x_hi = 0 /\ last.x_lo = ScenX)

\* C17 as stated: with n = 123 and x = 4567 (x_hi = 0, x_lo = 4567 in the
\* split-halves form) the reduction returns 37.
C17_Returns37 == ScenCall => (last.err = "" /\ last.val = 37)

\* C17 amended: with n = 123 and x = 4567 (x_hi = 0, x_lo = 4567 in the
\* split-halves form) the reduction returns 16, which is 4567 mod 123.
C17_Returns16 ==
    ScenCall => (last.err = "" /\ last.val = 16 /\ last.val = ScenX % ScenN)

\* The split-halves form has returned 16 for (0, 4567) with modulus 123.
C17_Witness ==
    /\ ctx.cls = "BarrettRed128"
    /\ ctx.n = ScenN
    /\ last.op = "calc128_split"
    /\ last.x_hi = 0
    /\ last.x_lo = ScenX
    /\ last.err = ""
    /\ last.val = 16

\* A call of the 64-bit reducer with modulus 2^63 - 1 has returned or thrown.
Red64TopCall ==
    /\ ctx.cls = "BarrettRed64"
    /\ ctx.n = TopBit64 - 1
    /\ last.op = "calc64"

\* C18 as stated: the 64-bit reducer constructed with n = 2^63 - 1 accepts
\* the dividend x = n^2 - 1 and returns n - 1.
C18_ReturnsNMinus1 ==
    (Red64TopCall /\ last.arg = ctx.n * ctx.n - 1) =>
        (last.err = "" /\ last.val = ctx.n - 1)

\* C18 amended: the 64-bit reducer constructed with n = 2^63 - 1 takes its
\* dividend as a 64-bit word; n^2 - 1 does not fit and reaches it as its low
\* 64 bits, 0, for which it returns 0.  It accepts every 64-bit dividend
\* and returns x mod n, which is 1 for the largest one, 2^64 - 1.
C18_Returns64BitRemainder ==
    Red64TopCall =>
        /\ last.x = last.arg % Pow2(Bits64)
        /\ last.err = ""
        /\ last.val = last.x % ctx.n
        /\ last.arg = ctx.n * ctx.n - 1 => (last.x = 0 /\ last.val = 0)
        /\ last.arg = UINT64_MAX => last.val = 1

\* The reducer with modulus 2^63 - 1 has returned 0 for the argument n^2 - 1.
C18_Witness ==
    /\ Red64TopCall
    /\ last.arg = ctx.n * ctx.n - 1
    /\ last.arg > UINT64_MAX
    /\ last.x = 0
    /\ last.err = ""
    /\ last.val = 0

IsCalc(op) == op \in {"calc32", "calc64", "calc128", "calc128_split"}

\* The members the constructor of c's class leaves for c's modulus.
Constructed(c) ==
    CASE c.cls = "BarrettRed32" -> BarrettRed32_new(c.n)
      [] c.cls = "BarrettRed64" -> BarrettRed64_new(native, c.n)
      [] c.cls = "BarrettRed128" -> BarrettRed128_new(native, c.n)
      [] OTHER -> NoCtx

\* The outcome of repeating the call recorded in l on the live context.
Repeated(l) ==
    CASE l.op = "calc32" -> Calc32_of(l.x)
      [] l.op = "calc64" /\ "arg" \notin DOMAIN l -> Calc64_of(l.x)
      [] l.op = "calc64" /\ "arg" \in DOMAIN l ->
            [arg |-> l.arg] @@ Calc64_of(U64(l.arg))
      [] l.op = "calc128" -> Calc128Single_of(l.x)
      [] l.op = "calc128_split" -> Calc128Split_of(l.x)
      [] OTHER -> l

\* C19: no reduction call of any class, returning or rejected, changes n,
\* r, s, t or the stored n^2; after it the members are those derived at
\* construction, and the same call made again gives the same outcome.
C19_CallsKeepConstants ==
    /\ [][IsCalc(last'.op) => ctx' = ctx]_vars
    /\ [](ctx = Constructed(ctx))
    /\ [](IsCalc(last.op) => last = Repeated(last))

\* A rejected split-halves call has returned and the members of the
\* BarrettRed128 are still those its constructor derived.
C19_Witness ==
    /\ ctx.cls = "BarrettRed128"
    /\ last.op = "calc128_split"
    /\ last.err = ErrInput
    /\ ctx = BarrettRed128_new(native, ctx.n)
    /\ last = Calc128Split_of(last.x)

(***************************************************************************)
(* Threads calling BarrettRed128::calc on one shared object with no lock.  *)
(* thr[u] holds the parameters and locals of thread u's call and pc, the   *)
(* statement it is at.  A step is one statement that reads a member,       *)
(* together with the statements on locals alone that precede it.           *)
(***************************************************************************)
NumThreads == 2
ConcSpread == 2

Threads == 1 .. NumThreads
\* The smallest modulus, the largest below 2^63 and the largest of all;
\* 2^63 itself, a power of two, is refused by the constructor.
ConcModuli == {3, TopBit64 - 1, TopBit64, UINT64_MAX}
\* Dividends at the upper edge of the accepted range, and n^2 itself.
ConcDividends(n) == {n * n - k : k \in 0 .. ConcSpread}
Forms == IF native THEN {"split", "single"} ELSE {"split"}

NoCall ==
    [pc |-> "idle", form |-> "", x |-> 0, a |-> 0, b |-> 0, qa |-> 0, qb |-> 0,
     at |-> 0, qan |-> 0, a1 |-> 0, b1 |-> 0, x1 |-> 0, err |-> "", val |-> 0]

ConcInit ==
    /\ half = HalfBits
    /\ native \in BOOLEAN
    /\ ctx = NoCtx
    /\ last = Idle
    /\ ucall = Idle
    /\ thr = [u \in Threads |-> NoCall]

\* The object is constructed before any thread is started.
ConcConstruct ==
    /\ ctx.cls = "none"
    /\ \E n \in ConcModuli : Construct128_of(n)
    /\ UNCHANGED <<half, thr, native, ucall>>

\* Thread u enters calc(x_hi, x_lo) or calc(x).
ConcCall(u) ==
    /\ ctx.cls = "BarrettRed128"
    /\ thr[u].pc = "idle"
    /\ \E f \in Forms, x \in ConcDividends(ctx.n) :
        thr' = [thr EXCEPT ![u] =
                    [NoCall EXCEPT !.pc = IF f = "split" THEN "chk_n" ELSE "chk_x",
                                   !.form = f, !.x = x]]
    /\ UNCHANGED <<half, native, ctx, last, ucall>>

\* if (n >= (1UL << 63U)) throw
ConcChkN(u) ==
    /\ thr[u].pc = "chk_n"
    /\ thr' = [thr EXCEPT ![u] =
                IF ctx.n >= TopBit64
                THEN [@ EXCEPT !.pc = "done", !.err = ErrModBig]
                ELSE [@ EXCEPT !.pc = "chk_x"]]
    /\ UNCHANGED <<half, native, ctx, last, ucall>>

\* The comparison of the dividend with n^2.
ConcChkX(u) ==
    /\ thr[u].pc = "chk_x"
    /\ LET c == thr[u]
           x_hi == Hi64(c.x)
           x_lo == Lo64(c.x)
           big == IF c.form = "single" THEN BarrettRed128_single_rejects(ctx, c.x)
                  ELSE IF native THEN x_hi * Pow2(Bits64) + x_lo >= ctx.n2
                  ELSE x_hi > ctx.n2_hi \/ (x_hi = ctx.n2_hi /\ x_lo >= ctx.n2_lo)
       IN  thr' = [thr EXCEPT ![u] =
                    IF big THEN [@ EXCEPT !.pc = "done", !.err = ErrInput]
                    ELSE [@ EXCEPT !.pc = "qa"]]
    /\ UNCHANGED <<half, native, ctx, last, ucall>>

\* calc whose locals a, b and qa have static storage: the step of one
\* thread sets them for every thread.
ConcQa_static(u) ==
    /\ thr[u].pc = "qa"
    /\ LET c == thr[u]
           a == Hi64(c.x)
           b == Lo64(c.x)
           qa == IF c.form = "single" THEN U128(a * ctx.s) \div Pow2(Bits64)
                 ELSE mulhi64(native, a, ctx.s)
       IN  thr' = [v \in Threads |->
                    IF v = u
                    THEN [thr[v] EXCEPT !.pc = "qb", !.a = a, !.b = b, !.qa = qa]
                    ELSE IF thr[v].pc \in {"idle", "done"} THEN thr[v]
                    ELSE [thr[v] EXCEPT !.a = a, !.b = b, !.qa = qa]]
    /\ UNCHANGED <<half, native, ctx, last, ucall>>

\* a = x_hi; b = x_lo; qa = mulhi64(a, s), or (a * s) >> 64U
ConcQa(u) ==
    /\ thr[u].pc = "qa"
    /\ LET c == thr[u]
           a == Hi64(c.x)
           b == Lo64(c.x)
           qa == IF c.form = "single" THEN U128(a * ctx.s) \div Pow2(Bits64)
                 ELSE mulhi64(native, a, ctx.s)
       IN  thr' = [thr EXCEPT ![u] = [@ EXCEPT !.pc = "qb", !.a = a, !.b = b, !.qa = qa]]
    /\ UNCHANGED <<half, native, ctx, last, ucall>>

\* qb = mulhi64(b, r), or (static_cast<uint128_t>(b) * r) >> 64U
ConcQb(u) ==
    /\ thr[u].pc = "qb"
    /\ LET c == thr[u]
           qb == IF c.form = "single" THEN U64(U128(c.b * ctx.r) \div Pow2(Bits64))
                 ELSE mulhi64(native, c.b, ctx.r)
       IN  thr' = [thr EXCEPT ![u] = [@ EXCEPT !.pc = "at", !.qb = qb]]
    /\ UNCHANGED <<half, native, ctx, last, ucall>>

\* at = a * t, the first product of a1 in calc(x)
ConcAt(u) ==
    /\ thr[u].pc = "at"
    /\ LET c == thr[u]
           at == IF c.form = "single" THEN U128(c.a * ctx.t) ELSE U64(c.a * ctx.t)
       IN  thr' = [thr EXCEPT ![u] = [@ EXCEPT !.pc = "qan", !.at = at]]
    /\ UNCHANGED <<half, native, ctx, last, ucall>>

\* qan = qa * n and the difference a1
ConcQan(u) ==
    /\ thr[u].pc = "qan"
    /\ LET c == thr[u]
           qan == IF c.form = "single" THEN U128(c.qa * ctx.n) ELSE U64(c.qa * ctx.n)
           a1 == IF c.form = "single" THEN U128(c.at - qan)
                 ELSE IF c.at < qan
                      THEN U64(U64(U64(TopBit64 - qan) + TopBit64) + c.at)
                      ELSE U64(c.at - qan)
       IN  thr' = [thr EXCEPT ![u] = [@ EXCEPT !.pc = "a1c", !.qan = qan, !.a1 = a1]]
    /\ UNCHANGED <<half, native, ctx, last, ucall>>

\* if (a1 >= n) a1 -= n
ConcA1c(u) ==
    /\ thr[u].pc = "a1c"
    /\ LET c == thr[u]
           a1 == IF c.a1 < ctx.n THEN c.a1
                 ELSE IF c.form = "single" THEN U128(c.a1 - ctx.n) ELSE U64(c.a1 - ctx.n)
       IN  thr' = [thr EXCEPT ![u] = [@ EXCEPT !.pc = "b1", !.a1 = a1]]
    /\ UNCHANGED <<half, native, ctx, last, ucall>>

\* b1 = b - qb * n
ConcB1(u) ==
    /\ thr[u].pc = "b1"
    /\ LET c == thr[u]
       IN  thr' = [thr EXCEPT ![u] =
                    [@ EXCEPT !.pc = "b1c", !.b1 = U64(c.b - U64(c.qb * ctx.n))]]
    /\ UNCHANGED <<half, native, ctx, last, ucall>>

\* if (b1 >= n) b1 -= n
ConcB1c(u) ==
    /\ thr[u].pc = "b1c"
    /\ LET c == thr[u]
           b1 == IF c.b1 >= ctx.n THEN U64(c.b1 - ctx.n) ELSE c.b1
       IN  thr' = [thr EXCEPT ![u] = [@ EXCEPT !.pc = "x1", !.b1 = b1]]
    /\ UNCHANGED <<half, native, ctx, last, ucall>>

\* x1 = a1 + b1; if (x1 >= n) x1 -= n; return x1
ConcX1(u) ==
    /\ thr[u].pc = "x1"
    /\ LET c == thr[u]
           x1_0 == IF c.form = "single" THEN U128(c.a1 + c.b1) ELSE U64(c.a1 + c.b1)
           x1 == IF x1_0 < ctx.n THEN x1_0
                 ELSE IF c.form = "single" THEN U128(x1_0 - ctx.n) ELSE U64(x1_0 - ctx.n)
       IN  thr' = [thr EXCEPT ![u] = [@ EXCEPT !.pc = "done", !.x1 = x1, !.val = U64(x1)]]
    /\ UNCHANGED <<half, native, ctx, last, ucall>>

\* The caller of thread u takes the value or catches the exception.
ConcReturn(u) ==
    /\ thr[u].pc = "done"
    /\ thr' = [thr EXCEPT ![u] = NoCall]
    /\ UNCHANGED <<half, native, ctx, last, ucall>>

ConcNext ==
    \/ ConcConstruct
    \/ \E u \in Threads : ConcCall(u)
    \/ \E u \in Threads : ConcChkN(u)
    \/ \E u \in Threads : ConcChkX(u)
    \/ \E u \in Threads : ConcQa(u)
    \/ \E u \in Threads : ConcQb(u)
    \/ \E u \in Threads : ConcAt(u)
    \/ \E u \in Threads : ConcQan(u)
    \/ \E u \in Threads : ConcA1c(u)
    \/ \E u \in Threads : ConcB1(u)
    \/ \E u \in Threads : ConcB1c(u)
    \/ \E u \in Threads : ConcX1(u)
    \/ \E u \in Threads : ConcReturn(u)

SpecConc == ConcInit /\ [][ConcNext]_vars

\* What the call of c returns when it runs alone on the object as its
\* constructor left it: the message of its exception and its value.
Alone(c) ==
    LET o == BarrettRed128_new(native, ctx.n)
        x_hi == Hi64(c.x)
        x_lo == Lo64(c.x)
    IN  IF c.form = "single"
        THEN IF BarrettRed128_single_rejects(o, c.x) THEN <<ErrInput, 0>>
             ELSE <<"", BarrettRed128_single_reduce(o, c.x).val>>
        ELSE LET e == BarrettRed128_split_guard(native, o, x_hi, x_lo)
             IN  IF e # "" THEN <<e, 0>>
                 ELSE <<"", BarrettRed128_split_reduce(native, o, x_hi, x_lo).val>>

\* C20: with the calls of several threads on one shared object interleaved
\* statement by statement and no lock, every finished call has the outcome
\* it has when run alone: x mod n, or the same exception.
C20_ConcurrentCallsAgree ==
    \A u \in Threads :
        thr[u].pc = "done" =>
            /\ <<thr[u].err, thr[u].val>> = Alone(thr[u])
            /\ thr[u].err = "" => thr[u].val = thr[u].x % ctx.n

\* One thread has returned a remainder while another, reducing a different
\* dividend, is between two statements of its call.
C20_Witness ==
    \E u, v \in Threads :
        /\ u # v
        /\ thr[u].pc = "done"
        /\ thr[u].err = ""
        /\ thr[u].val = thr[u].x % ctx.n
        /\ thr[v].pc = "qan"
        /\ thr[v].x # thr[u].x

\* C21: for every valid modulus the stored pair (n2_hi, n2_lo), with
\* n2_lo = n*n mod 2^64 and n2_hi = mulhi64(n, n), is the exact n^2 =
\* n2_hi*2^64 + n2_lo, the native 128-bit product, so that n2_hi = 0
\* exactly when n^2 < 2^64; the natively stored n2 is n^2 as well.
C21_SquareExact ==
    ctx.cls \in {"BarrettRed64", "BarrettRed128"} =>
        IF "n2" \in DOMAIN ctx
        THEN ctx.n2 = ctx.n * ctx.n
        ELSE /\ ctx.n2_lo = (ctx.n * ctx.n) % Pow2(Bits64)
             /\ ctx.n2_hi * Pow2(Bits64) + ctx.n2_lo = ctx.n * ctx.n
             /\ ctx.n2_hi * Pow2(Bits64) + ctx.n2_lo = BarrettRed128_new(TRUE, ctx.n).n2
             /\ (ctx.n2_hi = 0) <=> (ctx.n * ctx.n < Pow2(Bits64))

\* A BarrettRed64 of the build without a 128-bit type holds a square with
\* both words non-zero.
C21_Witness ==
    /\ ctx.cls = "BarrettRed64"
    /\ ~native
    /\ ctx.n2_hi > 0
    /\ ctx.n2_lo > 0
    /\ ctx.n2_hi * Pow2(Bits64) + ctx.n2_lo = ctx.n * ctx.n

\* The last call was a reduction that returned a value.
Returned == IsCalc(last.op) /\ last.err = ""

\* C22: in every accepted reduction each value compared with n is below 2n
\* before its conditional subtraction and the value returned is below n:
\* q_rem in BarrettRed32 and BarrettRed64, a1, b1 and x1 in both forms of
\* BarrettRed128.  In the split-halves form a1, b1 and a1 + b1 are moreover
\* the unwrapped integers a*t - qa*n, b - qb*n and a1 + b1.
C22_OneSubtractionSuffices ==
    Returned =>
        /\ last.val < ctx.n
        /\ last.op \in {"calc32", "calc64"} => last.tr.q_rem < 2 * ctx.n
        /\ last.op \in {"calc128", "calc128_split"} =>
            /\ last.tr.a1_0 < 2 * ctx.n
            /\ last.tr.b1_0 < 2 * ctx.n
            /\ last.tr.x1_0 < 2 * ctx.n
        /\ last.op = "calc128_split" =>
            LET a == last.x_hi
                b == last.x_lo
                qa == (a * ctx.s) \div Pow2(Bits64)
                qb == (b * ctx.r) \div Pow2(Bits64)
            IN  /\ ctx.n < TopBit64
                /\ last.tr.a1_0 = a * ctx.t - qa * ctx.n
                /\ last.tr.b1_0 = b - qb * ctx.n
                /\ last.tr.x1_0 = last.tr.a1 + last.tr.b1
                /\ last.tr.a1 + last.tr.b1 <= UINT64_MAX

\* A split-halves call has returned after subtracting n from a1 and from x1.
C22_Witness ==
    /\ Returned
    /\ last.op = "calc128_split"
    /\ last.tr.a1_0 >= ctx.n
    /\ last.tr.a1 = last.tr.a1_0 - ctx.n
    /\ last.tr.x1_0 >= ctx.n
    /\ last.val = last.tr.x1_0 - ctx.n

\* at - qan as a single 64-bit wraparound subtraction.
WrapSub64(at, qan) == (at + Pow2(Bits64) - qan) % Pow2(Bits64)

\* C23: in the split-halves reduction, for every n < 2^63 and accepted
\* dividend, whenever at < qan the value ((2^63 - qan) + 2^63 + at) taken
\* modulo 2^64 is the wraparound difference (at - qan) mod 2^64; a1 is that
\* difference in both branches, so a single wraparound subtraction gives
\* the same a1.
C23_UnderflowIsWraparound ==
    (Returned /\ last.op = "calc128_split") =>
        /\ ctx.n < TopBit64
        /\ last.tr.at < last.tr.qan =>
            (TopBit64 - last.tr.qan + TopBit64 + last.tr.at) % Pow2(Bits64)
                = WrapSub64(last.tr.at, last.tr.qan)
        /\ last.tr.a1_0 = WrapSub64(last.tr.at, last.tr.qan)

\* A split-halves call has returned through the branch at < qan.
C23_Witness ==
    /\ Returned
    /\ last.op = "calc128_split"
    /\ last.tr.at < last.tr.qan
    /\ last.tr.a1_0 = WrapSub64(last.tr.at, last.tr.qan)
    /\ last.val = last.x % ctx.n

\* C24: in both forms of the BarrettRed128 reduction, for every accepted
\* x = a*2^64 + b, after the conditional subtractions a1 = (a*2^64) mod n
\* and b1 = b mod n; the integer a*t - qa*n, qa = floor(a*s / 2^64), is
\* never negative.
C24_HalvesReduced ==
    (Returned /\ last.op \in {"calc128", "calc128_split"}) =>
        LET a == last.x \div Pow2(Bits64)
            b == last.x % Pow2(Bits64)
            qa == (a * ctx.s) \div Pow2(Bits64)
        IN  /\ last.tr.a1 = (a * Pow2(Bits64)) % ctx.n
            /\ last.tr.b1 = b % ctx.n
            /\ qa * ctx.n <= a * ctx.t

\* A single-value call with a modulus of at least 2^63 and a non-zero high
\* half has returned after subtracting n from a1.
C24_Witness ==
    /\ Returned
    /\ last.op = "calc128"
    /\ ctx.n >= TopBit64
    /\ last.x >= Pow2(Bits64)
    /\ last.tr.a1_0 >= ctx.n
    /\ last.tr.a1 = (Hi64(last.x) * Pow2(Bits64)) % ctx.n

(***************************************************************************)
(* The reducers with the comparison of the dividend with n^2 taken out of  *)
(* calc: the quotient estimate and the conditional subtractions run on     *)
(* every dividend the parameter type holds.  The split-halves form keeps   *)
(* its modulus check.                                                      *)
(***************************************************************************)
IsReduce(op) == op \in {"reduce32", "reduce64", "reduce128", "reduce128_split"}

Reduce32 ==
    /\ CanCall("BarrettRed32")
    /\ \E x \in Dividends32 :
        LET t == BarrettRed32_reduce(ctx, x)
        IN  last' = [op |-> "reduce32", x |-> x, err |-> "", val |-> t.val, tr |-> t]
    /\ UNCHANGED <<half, thr, native, ctx, ucall>>

Reduce64 ==
    /\ CanCall("BarrettRed64")
    /\ \E x \in Dividends64 :
        LET t == BarrettRed64_reduce(native, ctx, x)
        IN  last' = [op |-> "reduce64", x |-> x, err |-> "", val |-> t.val, tr |-> t]
    /\ UNCHANGED <<half, thr, native, ctx, ucall>>

Reduce128Single ==
    /\ native
    /\ CanCall("BarrettRed128")
    /\ \E x \in Dividends128 :
        LET t == BarrettRed128_single_reduce(ctx, x)
        IN  last' = [op |-> "reduce128", x |-> x, err |-> "", val |-> t.val, tr |-> t]
    /\ UNCHANGED <<half, thr, native, ctx, ucall>>

Reduce128Split ==
    /\ CanCall("BarrettRed128")
    /\ \E x \in Dividends128 :
        last' = IF ctx.n >= TopBit64
                THEN [op |-> "reduce128_split", x |-> x, err |-> ErrModBig,
                      val |-> 0, tr |-> <<>>]
                ELSE LET t == BarrettRed128_split_reduce(native, ctx, Hi64(x), Lo64(x))
                     IN  [op |-> "reduce128_split", x |-> x, err |-> "",
                          val |-> t.val, tr |-> t]
    /\ UNCHANGED <<half, thr, native, ctx, ucall>>

\* The caller consumes the value or catches the exception.
ReduceReturn ==
    /\ IsReduce(last.op)
    /\ last' = Idle
    /\ UNCHANGED <<half, thr, native, ctx, ucall>>

UncheckedNext ==
    \/ Construct32
    \/ Construct64
    \/ Construct128
    \/ Reduce32
    \/ Reduce64
    \/ Reduce128Single
    \/ Reduce128Split
    \/ ReduceReturn
    \/ Destroy

SpecUnchecked == Init /\ [][UncheckedNext]_vars

\* C25 as stated: for some valid modulus n and some dividend x >= n^2 that
\* the parameter type of BarrettRed32::calc or BarrettRed64::calc holds,
\* the quotient estimate followed by the single conditional subtraction
\* gives a value other than x mod n.
C25_BoundRequired ==
    \/ \E n \in {m \in Moduli32 : BarrettRed32_validate(m) = ""} :
        \E x \in {y \in Dividends32 : y >= n * n} :
            BarrettRed32_reduce(BarrettRed32_new(n), x).val # x % n
    \/ \E n \in {m \in Moduli64 : BarrettRed64_validate(m) = ""} :
        \E x \in {y \in Dividends64 : y >= n * n} :
            BarrettRed64_reduce(native, BarrettRed64_new(native, n), x).val # x % n

\* C25 amended: the arithmetic does not need the bound x < n^2.  For every
\* valid modulus and every dividend the parameter type holds, x >= n^2
\* included, the quotient estimate followed by the conditional
\* subtractions gives x mod n, in BarrettRed32, BarrettRed64 and both
\* forms of BarrettRed128 (the split-halves form with n < 2^63).
C25_BoundNotRequired ==
    (IsReduce(last.op) /\ last.err = "") => last.val = last.x % ctx.n

\* BarrettRed64's arithmetic has run on a dividend of at least n^2 and,
\* after its subtraction of n, returned x mod n.
C25_Witness ==
    /\ last.op = "reduce64"
    /\ last.x >= ctx.n * ctx.n
    /\ last.tr.q_rem >= ctx.n
    /\ last.val = last.x % ctx.n

(***************************************************************************)
(* calc(uint64_t, uint64_t) with its modulus check removed and its         *)
(* dividend check kept, on reducers whose modulus has the top bit set.     *)
(***************************************************************************)
TopSpread == 8

\* The largest TopSpread 64-bit moduli; all of them are at least 2^63.
TopModuli == {n \in TopBit64 .. UINT64_MAX : n > UINT64_MAX - TopSpread}

\* The dividend check of calc(uint64_t, uint64_t).
BarrettRed128_split_rejects(nat, c, x_hi, x_lo) ==
    IF nat
    THEN x_hi * Pow2(Bits64) + x_lo >= c.n2
    ELSE x_hi > c.n2_hi \/ (x_hi = c.n2_hi /\ x_lo >= c.n2_lo)

ConstructTop ==
    /\ CanConstruct
    /\ \E n \in TopModuli : Construct128_of(n)
    /\ UNCHANGED <<half, thr, native, ucall>>

SplitAnyModulus ==
    /\ CanCall("BarrettRed128")
    /\ \E x \in Dividends128 :
        last' = IF BarrettRed128_split_rejects(native, ctx, Hi64(x), Lo64(x))
                THEN [op |-> "split_any_modulus", x |-> x, err |-> ErrInput,
                      val |-> 0, tr |-> <<>>]
                ELSE LET t == BarrettRed128_split_reduce(native, ctx, Hi64(x), Lo64(x))
                     IN  [op |-> "split_any_modulus", x |-> x, err |-> "",
                          val |-> t.val, tr |-> t]
    /\ UNCHANGED <<half, thr, native, ctx, ucall>>

SplitAnyModulusReturn ==
    /\ last.op = "split_any_modulus"
    /\ last' = Idle
    /\ UNCHANGED <<half, thr, native, ctx, ucall>>

AnyModulusNext ==
    \/ ConstructTop
    \/ SplitAnyModulus
    \/ SplitAnyModulusReturn
    \/ Destroy

SpecAnyModulus == Init /\ [][AnyModulusNext]_vars

\* C26: the restriction n < 2^63 of the split-halves form is required.
\* With the modulus check removed there are a valid modulus n >= 2^63 and
\* a dividend x < n^2 for which the 64-bit computation of a1, b1 and
\* a1 + b1 returns a value other than x mod n.  The build (native) is fixed
\* for a whole run, so the existence is stated once per build, before any
\* reducer is constructed.
C26_ModulusBoundRequired ==
    (ctx = NoCtx /\ last = Idle) =>
        \E n \in {m \in TopModuli : BarrettRed128_validate(m) = ""} :
            LET c == BarrettRed128_new(native, n)
            IN  \E x \in Dividends128 :
                    /\ x < n * n
                    /\ BarrettRed128_split_reduce(native, c, Hi64(x), Lo64(x)).val # x % n

\* The split-halves arithmetic has run on an accepted dividend with a
\* modulus of at least 2^63 and returned a value other than x mod n,
\* after a1 + b1 wrapped around 2^64.
C26_Witness ==
    /\ last.op = "split_any_modulus"
    /\ last.err = ""
    /\ ctx.n >= TopBit64
    /\ last.x < ctx.n * ctx.n
    /\ last.tr.a1 + last.tr.b1 > UINT64_MAX
    /\ last.val # last.x % ctx.n

(***************************************************************************)
(* The long divisions one loop iteration at a time.  ucall.st is the       *)
(* loop's state (i, q and the remainder) between iterations, ucall.sh the  *)
(* remainder of the last iteration after its shift and its injected bit,   *)
(* before the subtraction, and ucall.iters the iterations run so far.      *)
(***************************************************************************)
StepSpread == 4

\* The smallest and the largest StepSpread 64-bit words.
StepWords == {w \in 0 .. UINT64_MAX : w < StepSpread \/ w > UINT64_MAX - StepSpread}
StepDivisors == Moduli64 \cup StepWords

\* r_hi and r_lo of longdiv128 after the shift and the injection of bit i
\* of the dividend.
longdiv128_shifted(st, n_hi, n_lo) ==
    LET r_hi1 == U64(st.r_hi * 2) + (st.r_lo \div Pow2(Bits64 - 1))
        r_lo1 == U64(st.r_lo * 2)
        n_i == IF st.i >= Bits64 THEN BitAt(n_hi, st.i - Bits64) ELSE BitAt(n_lo, st.i)
    IN  [r_hi |-> r_hi1, r_lo |-> (r_lo1 - (r_lo1 % 2)) + n_i]

\* r_hi and r_lo of longdiv128_1s after the shift and r_lo |= 1.
longdiv128_1s_shifted(st) ==
    LET r_hi1 == U64(st.r_hi * 2) + (st.r_lo \div Pow2(Bits64 - 1))
        r_lo1 == U64(st.r_lo * 2)
    IN  [r_hi |-> r_hi1, r_lo |-> IF r_lo1 % 2 = 1 THEN r_lo1 ELSE r_lo1 + 1]

\* The number of iterations the for loop of fn is written to make.
LoopLength(fn) == IF fn = "longdiv64" THEN Bits64 ELSE Bits128

NoShift == [r_hi |-> 0, r_lo |-> 0]

EnterLongdiv128 ==
    /\ ucall.op = "idle"
    /\ \E n_hi \in StepWords, n_lo \in StepWords, d \in StepDivisors :
        ucall' = [op |-> "loop", fn |-> "longdiv128", n_hi |-> n_hi, n_lo |-> n_lo,
                  d |-> d, iters |-> 0, sh |-> NoShift,
                  st |-> [i |-> Bits128 - 1, q |-> 0, r_hi |-> 0, r_lo |-> 0]]
    /\ UNCHANGED <<half, thr, native, ctx, last>>

EnterLongdiv128_1s ==
    /\ ucall.op = "idle"
    /\ \E d \in StepDivisors :
        ucall' = [op |-> "loop", fn |-> "longdiv128_1s", n_hi |-> UINT64_MAX,
                  n_lo |-> UINT64_MAX, d |-> d, iters |-> 0, sh |-> NoShift,
                  st |-> [i |-> Bits128 - 1, q |-> 0, r_hi |-> 0, r_lo |-> 0]]
    /\ UNCHANGED <<half, thr, native, ctx, last>>

EnterLongdiv64 ==
    /\ ucall.op = "idle"
    /\ \E n \in StepWords, d \in StepDivisors :
        ucall' = [op |-> "loop", fn |-> "longdiv64", n_hi |-> 0, n_lo |-> n,
                  d |-> d, iters |-> 0, sh |-> NoShift,
                  st |-> [i |-> Bits64 - 1, q |-> 0, r |-> 0, lost |-> FALSE]]
    /\ UNCHANGED <<half, thr, native, ctx, last>>

Iterate128 ==
    /\ ucall.op = "loop" /\ ucall.fn = "longdiv128"
    /\ ucall.st.i >= 0
    /\ ucall' = [ucall EXCEPT
                    !.st = longdiv128_body(ucall.st, ucall.n_hi, ucall.n_lo, ucall.d),
                    !.sh = longdiv128_shifted(ucall.st, ucall.n_hi, ucall.n_lo),
                    !.iters = @ + 1]
    /\ UNCHANGED <<half, thr, native, ctx, last>>

Iterate128_1s ==
    /\ ucall.op = "loop" /\ ucall.fn = "longdiv128_1s"
    /\ ucall.st.i >= 0
    /\ ucall' = [ucall EXCEPT
                    !.st = longdiv128_1s_body(ucall.st, ucall.d),
                    !.sh = longdiv128_1s_shifted(ucall.st),
                    !.iters = @ + 1]
    /\ UNCHANGED <<half, thr, native, ctx, last>>

Iterate64 ==
    /\ ucall.op = "loop" /\ ucall.fn = "longdiv64"
    /\ ucall.st.i >= 0
    /\ ucall' = [ucall EXCEPT
                    !.st = longdiv64_body(ucall.st, ucall.n_lo, ucall.d),
                    !.iters = @ + 1]
    /\ UNCHANGED <<half, thr, native, ctx, last>>

\* The loop condition i >= 0 fails: return q.
LoopExit ==
    /\ ucall.op = "loop"
    /\ ucall.st.i < 0
    /\ ucall' = [op |-> "returned", fn |-> ucall.fn, d |-> ucall.d,
                 iters |-> ucall.iters, out |-> ucall.st.q]
    /\ UNCHANGED <<half, thr, native, ctx, last>>

LoopReturn ==
    /\ ucall.op = "returned"
    /\ ucall' = Idle
    /\ UNCHANGED <<half, thr, native, ctx, last>>

LoopStep == Iterate128 \/ Iterate128_1s \/ Iterate64 \/ LoopExit

LoopNext ==
    \/ EnterLongdiv128
    \/ EnterLongdiv128_1s
    \/ EnterLongdiv64
    \/ Iterate128
    \/ Iterate128_1s
    \/ Iterate64
    \/ LoopExit
    \/ LoopReturn

SpecLoop == DivInit /\ [][LoopNext]_vars

\* A call that has been entered keeps running: nothing else is scheduled
\* in its place.
SpecLoopFair == SpecLoop /\ WF_vars(LoopStep)

InLoop128 == ucall.op = "loop" /\ ucall.fn \in {"longdiv128", "longdiv128_1s"}

\* C27: in longdiv128 and longdiv128_1s with d >= 1 the remainder at the
\* end of every iteration (and before the first) has r_hi = 0 and
\* r_lo < d; after the shift and the injected bit r_hi is at most 1, and
\* when it is 1 then r_lo < d, so the subtraction's borrow takes r_hi from
\* 1 to 0 and never below, and one subtraction of d leaves the remainder
\* below d.
C27_RemainderBelowDivisor ==
    (InLoop128 /\ ucall.d >= 1) =>
        /\ ucall.st.r_hi = 0
        /\ ucall.st.r_lo < ucall.d
        /\ ucall.sh.r_hi <= 1
        /\ ucall.sh.r_hi = 1 => ucall.sh.r_lo < ucall.d
        /\ LET taken == ucall.sh.r_hi # 0 \/ ucall.sh.r_lo >= ucall.d
               borrow == IF ucall.d > ucall.sh.r_lo THEN 1 ELSE 0
               whole == ucall.sh.r_hi * Pow2(Bits64) + ucall.sh.r_lo
           IN  ucall.iters > 0 =>
                   /\ taken => ucall.sh.r_hi - borrow >= 0
                   /\ taken => ucall.st.r_lo = whole - ucall.d
                   /\ ~taken => ucall.st.r_lo = whole

\* An iteration of longdiv128 has shifted a set bit into r_hi and the
\* subtraction has borrowed it back.
C27_Witness ==
    /\ InLoop128 /\ ucall.fn = "longdiv128"
    /\ ucall.d >= 1
    /\ ucall.iters > 0
    /\ ucall.sh.r_hi = 1
    /\ ucall.sh.r_lo < ucall.d
    /\ ucall.st.r_hi = 0
    /\ ucall.st.r_lo = Pow2(Bits64) + ucall.sh.r_lo - ucall.d

\* C28: longdiv128 and longdiv128_1s leave their loop after exactly 128
\* iterations and longdiv64 after exactly 64, for every input, divisor 0
\* included; every call returns; an iteration sets at most one quotient
\* bit, bit i, and only when i < 64.
C28_LoopsTerminate ==
    /\ [](ucall.op = "loop" =>
            ucall.iters + ucall.st.i + 1 = LoopLength(ucall.fn))
    /\ [](ucall.op = "returned" => ucall.iters = LoopLength(ucall.fn))
    /\ [][(ucall.op = "loop" /\ ucall'.op = "loop") =>
            \/ ucall'.st.q = ucall.st.q
            \/ /\ ucall.st.i < Bits64
               /\ ucall'.st.q = ucall.st.q + Pow2(ucall.st.i)]_vars
    /\ (ucall.op = "loop") ~> (ucall.op = "returned")

\* longdiv128 has returned from a call with divisor 0 after its loop ran
\* to the end, with every quotient bit set.
C28_Witness ==
    /\ ucall.op = "returned"
    /\ ucall.fn = "longdiv128"
    /\ ucall.d = 0
    /\ ucall.iters = Bits128
    /\ ucall.out = UINT64_MAX

====
